---- MODULE Spec2Model ----
(***************************************************************************)
(* video-ascii-cli: the per-frame ASCII transform (src/src/ascii.rs) and   *)
(* the pipeline that drives it (src/src/pipeline.rs, src/src/video.rs).    *)
(*                                                                         *)
(* Images are functions from <<x, y>> to pixel values.  Characters are     *)
(* Unicode code points.  f32 values are modelled bit-exactly (IEEE-754     *)
(* binary32, round-to-nearest-even) as records [neg, m, e] standing for    *)
(* (-1)^neg * m * 2^e with m = 0 or 2^23 <= m < 2^24.                      *)
(***************************************************************************)
EXTENDS Integers, Sequences, FiniteSets, TLC

(***************************************************************************)
(* Program constants                                                       *)
(***************************************************************************)
\* u8::MAX, the white pixel Luma([255])
U8Max == 255
\* char_width = char_height = 8
CharSize == 8
\* the upper end of shades.clamp(1, 256)
MaxShades == 256
\* the threshold of the two-shade mode: brightness < 128
BwThreshold == 128

Byte == 0..U8Max

Min(a, b) == IF a < b THEN a ELSE b
Max(a, b) == IF a > b THEN a ELSE b

(***************************************************************************)
(* f32 arithmetic                                                          *)
(***************************************************************************)
RECURSIVE BitLen(_)
BitLen(n) == IF n = 0 THEN 0 ELSE 1 + BitLen(n \div 2)

F32Zero == [neg |-> FALSE, m |-> 0, e |-> 0]

\* The f32 nearest to n * 2^e (ties to even), for a natural n < 2^31.
F32RoundNorm(neg, n, e) ==
    IF n = 0 THEN F32Zero
    ELSE LET bl == BitLen(n) IN
         IF bl <= 24
         THEN [neg |-> neg, m |-> n * 2^(24 - bl), e |-> e - (24 - bl)]
         ELSE LET k  == bl - 24
                  q  == n \div 2^k
                  r  == n % 2^k
                  up == r > 2^(k-1) \/ (r = 2^(k-1) /\ q % 2 = 1)
                  q2 == IF up THEN q + 1 ELSE q
              IN IF q2 = 2^24
                 THEN [neg |-> neg, m |-> 2^23, e |-> e + k + 1]
                 ELSE [neg |-> neg, m |-> q2, e |-> e + k]

\* `n as f32` for an integer 0 <= n < 2^24 (exact).
F32FromInt(n) == F32RoundNorm(FALSE, n, 0)

F32Neg(a) == IF a.m = 0 THEN a ELSE [a EXCEPT !.neg = ~a.neg]

\* v shifted right by d bits, the bits shifted out or-ed into the lowest bit.
ShiftRightSticky(v, d) ==
    IF d = 0 THEN v
    ELSE IF d >= 28 THEN (IF v # 0 THEN 1 ELSE 0)
    ELSE LET q == v \div 2^d IN
         IF v % 2^d # 0 /\ q % 2 = 0 THEN q + 1 ELSE q

\* a + b, with three extra bits (guard, round, sticky) before rounding.
F32Add(a, b) ==
    IF a.m = 0 THEN b
    ELSE IF b.m = 0 THEN a
    ELSE LET x == IF a.e >= b.e THEN a ELSE b
             y == IF a.e >= b.e THEN b ELSE a
             X == x.m * 8
             Y == ShiftRightSticky(y.m * 8, x.e - y.e)
         IN IF x.neg = y.neg THEN F32RoundNorm(x.neg, X + Y, x.e - 3)
            ELSE IF X >= Y THEN F32RoundNorm(x.neg, X - Y, x.e - 3)
            ELSE F32RoundNorm(y.neg, Y - X, x.e - 3)

F32Sub(a, b) == F32Add(a, F32Neg(b))

F32Lt(a, b) == LET d == F32Sub(a, b) IN d.m # 0 /\ d.neg

\* f32::clamp(lo, hi)
F32Clamp(a, lo, hi) == IF F32Lt(a, lo) THEN lo ELSE IF F32Lt(hi, a) THEN hi ELSE a

RECURSIVE LongDiv(_, _, _, _)
\* bits more quotient bits of rem / d, appended to q.
LongDiv(rem, d, bits, q) ==
    IF bits = 0 THEN [q |-> q, rem |-> rem]
    ELSE IF 2 * rem >= d THEN LongDiv(2 * rem - d, d, bits - 1, 2 * q + 1)
    ELSE LongDiv(2 * rem, d, bits - 1, 2 * q)

\* a / b for b # 0: 27 quotient bits and a sticky bit, then rounded.
F32Div(a, b) ==
    IF a.m = 0 THEN F32Zero
    ELSE LET r == LongDiv(a.m % b.m, b.m, 26, a.m \div b.m)
             n == 2 * r.q + (IF r.rem # 0 THEN 1 ELSE 0)
         IN F32RoundNorm(a.neg # b.neg, n, a.e - b.e - 27)

RECURSIVE OddPart(_)
\* [m, e] with m odd and m * 2^e = n, for n > 0.
OddPart(n) == IF n % 2 = 1 THEN [m |-> n, e |-> 0]
              ELSE LET p == OddPart(n \div 2) IN [m |-> p.m, e |-> p.e + 1]

\* a * b where the significand of b, stripped of its trailing zero bits, has at
\* most 12 bits (the constants 1.5 and 255.0 of this program, small integers).
F32Mul(a, b) ==
    IF a.m = 0 \/ b.m = 0 THEN F32Zero
    ELSE LET o   == OddPart(b.m)
             k   == BitLen(o.m)
             neg == a.neg # b.neg
             e   == a.e + b.e + o.e
         IN IF k <= 7 THEN F32RoundNorm(neg, a.m * o.m, e)
            ELSE LET dd == k - 7
                     hi == (a.m \div 4096) * o.m
                     lo == (a.m % 4096) * o.m
                     H  == hi + (lo \div 4096)
                     L  == lo % 4096
                     n0 == (H * 2^(12 - dd)) + (L \div 2^dd)
                     n  == IF L % 2^dd # 0 /\ n0 % 2 = 0 THEN n0 + 1 ELSE n0
                 IN F32RoundNorm(neg, n, e + dd)

\* f32::round(): to the nearest integer, halves away from zero; a is finite and
\* |a| < 2^24, the result is returned as an integer.
F32Round(a) ==
    LET mag == IF a.e >= 0 THEN a.m * 2^(a.e)
               ELSE IF -a.e > 24 THEN 0
               ELSE LET p == 2^(-a.e) IN
                    (a.m \div p) + (IF 2 * (a.m % p) >= p THEN 1 ELSE 0)
    IN IF a.neg THEN -mag ELSE mag

\* `a as u8`: truncation toward zero, saturating at 0 and 255.
F32AsU8(a) ==
    IF a.neg THEN 0
    ELSE LET t == IF a.e >= 0 THEN (IF a.e > 6 THEN U8Max + 1 ELSE a.m * 2^(a.e))
                  ELSE IF -a.e >= 24 THEN 0
                  ELSE a.m \div 2^(-a.e)
         IN Min(t, U8Max)

F32Half == [neg |-> FALSE, m |-> 2^23, e |-> -24]
F32OnePointFive == [neg |-> FALSE, m |-> 3 * 2^22, e |-> -23]
F32One == F32FromInt(1)
F32U8Max == F32FromInt(U8Max)

(***************************************************************************)
(* ascii.rs: the pure helpers                                              *)
(***************************************************************************)
enhance_rounds_to_nearest(luma) ==
    LET f        == F32Div(F32FromInt(luma), F32U8Max)
        enhanced == F32Clamp(F32Add(F32Mul(F32Sub(f, F32Half), F32OnePointFive), F32Half),
                             F32Zero, F32One)
    IN Min(Max(F32Round(F32Mul(enhanced, F32U8Max)), 0), U8Max)

enhance_contrast(luma) ==
    LET f        == F32Div(F32FromInt(luma), F32U8Max)
        enhanced == F32Clamp(F32Add(F32Mul(F32Sub(f, F32Half), F32OnePointFive), F32Half),
                             F32Zero, F32One)
    IN F32AsU8(F32Mul(enhanced, F32U8Max))

shade_threshold_inclusive(brightness, num_shades) ==
    LET last        == F32Sub(F32FromInt(num_shades), F32One)
        shade_step  == F32Div(F32U8Max, last)
        idx         == F32Round(F32Div(F32FromInt(brightness), shade_step))
        shade_index == Min(Max(idx, 0), F32Round(last)) % (U8Max + 1)
    IN IF num_shades = 2
       THEN (IF brightness <= BwThreshold THEN 0 ELSE U8Max)
       ELSE Min(Max(F32Round(F32Div(F32Mul(F32FromInt(shade_index), F32U8Max), last)), 0), U8Max)

shade_truncates(brightness, num_shades) ==
    LET last        == F32Sub(F32FromInt(num_shades), F32One)
        shade_step  == F32Div(F32U8Max, last)
        idx         == F32Round(F32Div(F32FromInt(brightness), shade_step))
        shade_index == Min(Max(idx, 0), F32Round(last)) % (U8Max + 1)
    IN IF num_shades = 2
       THEN (IF brightness < BwThreshold THEN 0 ELSE U8Max)
       ELSE F32AsU8(F32Div(F32Mul(F32FromInt(shade_index), F32U8Max), last))

\* lines 145-153 of draw_glyph_gray: the value painted on foreground pixels
\* (`.round().clamp(0.0, num_shades - 1.0) as u8`, then `.round() as u8`).
shade_pixel_value(brightness, num_shades) ==
    LET last        == F32Sub(F32FromInt(num_shades), F32One)
        shade_step  == F32Div(F32U8Max, last)
        idx         == F32Round(F32Div(F32FromInt(brightness), shade_step))
        shade_index == Min(Max(idx, 0), F32Round(last)) % (U8Max + 1)
    IN IF num_shades = 2
       THEN (IF brightness < BwThreshold THEN 0 ELSE U8Max)
       ELSE Min(Max(F32Round(F32Div(F32Mul(F32FromInt(shade_index), F32U8Max), last)), 0), U8Max)

(***************************************************************************)
(* Characters, strings and the font                                        *)
(***************************************************************************)
\* Code points of the characters of the default charsets and of the fallback '?'.
ChSpace == 32
ChHash == 35
ChPercent == 37
ChStar == 42
ChPlus == 43
ChMinus == 45
ChDot == 46
ChColon == 58
ChEquals == 61
ChQuestion == 63
ChAt == 64
\* BASIC_FONTS covers U+0000..U+007F
BasicFontEnd == 128

\* "@#*+=-:. "
DefaultCharset == <<ChAt, ChHash, ChStar, ChPlus, ChEquals, ChMinus, ChColon, ChDot, ChSpace>>

\* A &str is its UTF-8 bytes; code points below U+0800 take one or two bytes.
RECURSIVE Utf8Encode(_)
Utf8Encode(cs) ==
    IF cs = <<>> THEN <<>>
    ELSE LET c == Head(cs) IN
         (IF c < 128 THEN <<c>> ELSE <<192 + (c \div 64), 128 + (c % 64)>>)
         \o Utf8Encode(Tail(cs))

RECURSIVE str_chars(_)
\* str::chars().collect(): the code points of a valid UTF-8 byte string.
str_chars(bytes) ==
    IF bytes = <<>> THEN <<>>
    ELSE LET b == Head(bytes) IN
         IF b < 128 THEN <<b>> \o str_chars(Tail(bytes))
         ELSE <<((b % 32) * 64) + (bytes[2] % 64)>> \o str_chars(Tail(Tail(bytes)))

None == [some |-> FALSE]
Some(v) == [some |-> TRUE, val |-> v]
unwrap_or(opt, dflt) == IF opt.some THEN opt.val ELSE dflt

BlankGlyph == <<0, 0, 0, 0, 0, 0, 0, 0>>

\* font8x8::BASIC_FONTS.get(ch): the 8 row bytes of the glyph, bit gx of a row
\* being the pixel of column gx.
basic_fonts_get(ch) ==
    IF ch >= BasicFontEnd THEN None
    ELSE Some(CASE ch = ChSpace    -> <<0, 0, 0, 0, 0, 0, 0, 0>>
                [] ch = ChHash     -> <<54, 54, 127, 54, 127, 54, 54, 0>>
                [] ch = ChPercent  -> <<0, 99, 51, 24, 12, 102, 99, 0>>
                [] ch = ChStar     -> <<0, 102, 60, 255, 60, 102, 0, 0>>
                [] ch = ChPlus     -> <<0, 12, 12, 63, 12, 12, 0, 0>>
                [] ch = ChMinus    -> <<0, 0, 0, 63, 0, 0, 0, 0>>
                [] ch = ChDot      -> <<0, 0, 0, 0, 0, 12, 12, 0>>
                [] ch = ChColon    -> <<0, 12, 12, 0, 0, 12, 12, 0>>
                [] ch = ChEquals   -> <<0, 0, 63, 0, 0, 63, 0, 0>>
                [] ch = ChQuestion -> <<30, 51, 48, 24, 12, 0, 12, 0>>
                [] ch = ChAt       -> <<62, 99, 123, 123, 123, 3, 30, 0>>)

\* let fallback = get('?').unwrap_or([0; 8]); let glyph = get(ch).unwrap_or(fallback)
glyph_for(ch) == unwrap_or(basic_fonts_get(ch), unwrap_or(basic_fonts_get(ChQuestion), BlankGlyph))

\* (row_bits >> gx) & 1 == 1
bit_on(glyph, gx, gy) == (glyph[gy + 1] \div 2^gx) % 2 = 1

(***************************************************************************)
(* Images                                                                  *)
(***************************************************************************)
Coords(w, h) == (0..(w - 1)) \X (0..(h - 1))

\* GrayImage::from_pixel(w, h, Luma([v]))
from_pixel(w, h, v) == [width |-> w, height |-> h, px |-> [p \in Coords(w, h) |-> v]]

in_bounds(image, px, py) == px < image.width /\ py < image.height

get_pixel(image, px, py) == image.px[<<px, py>>]

(***************************************************************************)
(* ascii.rs                                                                *)
(***************************************************************************)
new_keeps_shades(columns, charset, shades) ==
    [columns |-> Max(columns, 1),
     charset |-> IF str_chars(charset) = <<>> THEN DefaultCharset ELSE str_chars(charset),
     shades  |-> Max(shades, 1)]

\* AsciiOptions::new
AsciiOptions_new(columns, charset, shades) ==
    LET chars == str_chars(charset) IN
    [columns |-> Max(columns, 1),
     charset |-> IF chars = <<>> THEN DefaultCharset ELSE chars,
     shades  |-> Min(Max(shades, 1), MaxShades)]

RECURSIVE RowSum(_, _, _, _)
RowSum(image, py, px, x1) ==
    IF px >= x1 THEN 0 ELSE get_pixel(image, px, py) + RowSum(image, py, px + 1, x1)

RECURSIVE RegionSum(_, _, _, _, _)
RegionSum(image, x0, x1, py, y1) ==
    IF py >= y1 THEN 0
    ELSE RowSum(image, py, x0, x1) + RegionSum(image, x0, x1, py + 1, y1)

average_luma_rounded(image, x0, x1, y0, y1) ==
    LET xe    == Min(x1, image.width)
        ye    == Min(y1, image.height)
        sum   == RegionSum(image, x0, xe, y0, ye)
        count == Max(xe - x0, 0) * Max(ye - y0, 0)
    IN IF count = 0 THEN 0 ELSE (((2 * sum) + count) \div (2 * count)) % (U8Max + 1)

average_luma(image, x0, x1, y0, y1) ==
    LET xe    == Min(x1, image.width)
        ye    == Min(y1, image.height)
        sum   == RegionSum(image, x0, xe, y0, ye)
        count == Max(xe - x0, 0) * Max(ye - y0, 0)
    IN IF count = 0 THEN 0 ELSE (sum \div count) % (U8Max + 1)

map_rounds_index(luma, charset) ==
    LET last == Max(Len(charset) - 1, 0)
        idx  == (2 * luma * last + U8Max) \div (2 * U8Max)
    IN charset[idx + 1]

map_luma_to_char(luma, charset) ==
    LET last == Max(Len(charset) - 1, 0)
        idx  == (luma * last) \div U8Max
    IN charset[idx + 1]

InBlock(p, bx, by) ==
    /\ bx <= p[1] /\ p[1] < bx + CharSize
    /\ by <= p[2] /\ p[2] < by + CharSize

\* canvas.put_pixel panics outside the canvas: the 8x8 glyph must fit.
glyph_fits(canvas, bx, by) == in_bounds(canvas, bx + CharSize - 1, by + CharSize - 1)

draw_glyph_gray(canvas, bx, by, ch, brightness, num_shades) ==
    LET glyph       == glyph_for(ch)
        pixel_value == shade_pixel_value(brightness, num_shades)
    IN [canvas EXCEPT !.px =
          [p \in DOMAIN canvas.px |->
             IF InBlock(p, bx, by)
             THEN (IF bit_on(glyph, p[1] - bx, p[2] - by) THEN pixel_value ELSE U8Max)
             ELSE canvas.px[p]]]

draw_bw_antialiased(canvas, bx, by, ch) ==
    LET glyph == glyph_for(ch)
    IN [canvas EXCEPT !.px =
          [p \in DOMAIN canvas.px |->
             IF InBlock(p, bx, by)
             THEN (IF bit_on(glyph, p[1] - bx, p[2] - by) THEN 0
                   ELSE IF p[1] - bx > 0 /\ bit_on(glyph, p[1] - bx - 1, p[2] - by)
                        THEN BwThreshold ELSE U8Max)
             ELSE canvas.px[p]]]

draw_glyph_bw(canvas, bx, by, ch) ==
    LET glyph == glyph_for(ch)
    IN [canvas EXCEPT !.px =
          [p \in DOMAIN canvas.px |->
             IF InBlock(p, bx, by)
             THEN (IF bit_on(glyph, p[1] - bx, p[2] - by) THEN 0 ELSE U8Max)
             ELSE canvas.px[p]]]

glyph_writes_nine_columns(bx, by) ==
    {<<bx + gx, by + gy>> : gx \in 0..CharSize, gy \in 0..(CharSize - 1)}

\* the coordinates given to canvas.put_pixel by draw_glyph_bw and draw_glyph_gray
glyph_writes(bx, by) ==
    {<<bx + gx, by + gy>> : gx \in 0..(CharSize - 1), gy \in 0..(CharSize - 1)}

\* the coordinates given to image.get_pixel by average_luma
luma_reads(image, x0, x1, y0, y1) ==
    {<<px, py>> : px \in x0..(Min(x1, image.width) - 1), py \in y0..(Min(y1, image.height) - 1)}

\* The body of the loops of convert_frame_to_ascii for the block (row, col).
loop_body(source, options, output, row, col) ==
    LET y0       == row * CharSize
        y1       == y0 + CharSize
        x0       == col * CharSize
        x1       == x0 + CharSize
        luma     == average_luma(source, x0, x1, y0, y1)
        enhanced == enhance_contrast(luma)
        ch       == map_luma_to_char(enhanced, options.charset)
    IN [ok       |-> glyph_fits(output, x0, y0),
        luma     |-> luma,
        enhanced |-> enhanced,
        ch       |-> ch,
        reads    |-> luma_reads(source, x0, x1, y0, y1),
        writes   |-> glyph_writes(x0, y0),
        output   |-> IF ~glyph_fits(output, x0, y0) THEN output
                     ELSE IF options.shades > 1
                     THEN draw_glyph_gray(output, x0, y0, ch, enhanced, options.shades)
                     ELSE draw_glyph_bw(output, x0, y0, ch)]

grid_columns(source) == source.width \div CharSize
grid_rows(source) == source.height \div CharSize

blank_keeps_source_size(source) == from_pixel(source.width, source.height, U8Max)

\* let mut output = GrayImage::from_pixel(out_width, out_height, Luma([255]))
blank_output(source) ==
    from_pixel(grid_columns(source) * CharSize, grid_rows(source) * CharSize, U8Max)

RECURSIVE convert_from(_, _, _, _)
\* The loops from block number i on, in row-major order.
convert_from(source, options, output, i) ==
    IF grid_columns(source) = 0 \/ i >= grid_rows(source) * grid_columns(source) THEN output
    ELSE convert_from(source, options,
                      loop_body(source, options, output,
                                i \div grid_columns(source), i % grid_columns(source)).output,
                      i + 1)

convert_sized_by_columns(source, options) ==
    LET w       == Min(source.width, options.columns * CharSize)
        cropped == [width |-> w, height |-> source.height,
                    px |-> [p \in Coords(w, source.height) |-> source.px[p]]]
    IN convert_from(cropped, options, blank_output(cropped), 0)

convert_frame_to_ascii(source, options) ==
    convert_from(source, options, blank_output(source), 0)

\* One iteration of `for (color, &count) in histogram.iter().enumerate()`.
scan_first_of_ties_last(histogram, st, color) ==
    IF histogram[color] >= st.max_count /\ histogram[color] > 0
    THEN [max_count |-> histogram[color], bg_color |-> color]
    ELSE st

scan_step(histogram, st, color) ==
    IF histogram[color] > st.max_count
    THEN [max_count |-> histogram[color], bg_color |-> color]
    ELSE st

RECURSIVE histogram_scan(_, _, _, _)
\* The iterations for the colors lo..hi in ascending order, from the state st
\* (the range is halved to keep the recursion shallow; the order is the loop's).
histogram_scan(histogram, lo, hi, st) ==
    IF lo = hi THEN scan_step(histogram, st, lo)
    ELSE LET mid == (lo + hi) \div 2 IN
         CHOOSE r \in {histogram_scan(histogram, mid + 1, hi, left) :
                          left \in {histogram_scan(histogram, lo, mid, st)}} : TRUE

detect_background_color(image) ==
    LET histogram == [c \in Byte |-> Cardinality({p \in DOMAIN image.px : image.px[p] = c})]
    IN histogram_scan(histogram, 0, U8Max, [max_count |-> 0, bg_color |-> U8Max]).bg_color

\* i16 wrapping, u16 of unsigned_abs, `as u8`
WrapI16(v) == ((v + 32768) % 65536) - 32768
UnsignedAbs(v) == IF v < 0 THEN -v ELSE v
AsU8(v) == v % (U8Max + 1)

is_background_wrapping_sub(luma, bg_color, threshold) ==
    AsU8(luma - bg_color) <= threshold

\* (luma as i16 - bg_color as i16).unsigned_abs() as u8 <= threshold
is_background(luma, bg_color, threshold) ==
    AsU8(UnsignedAbs(WrapI16(luma - bg_color))) <= threshold

TransparentPixel == <<U8Max, U8Max, U8Max, 0>>
OpaquePixel(luma) == <<luma, luma, luma, U8Max>>

convert_to_transparent(source, bg_color, threshold) ==
    [width  |-> source.width,
     height |-> source.height,
     px     |-> [p \in DOMAIN source.px |->
                   IF is_background(source.px[p], bg_color, threshold)
                   THEN TransparentPixel
                   ELSE OpaquePixel(source.px[p])]]

(***************************************************************************)
(* Bounds and inputs                                                       *)
(***************************************************************************)
\* A source frame spans at most MaxBlocks blocks (plus an edge) each way.
MaxBlocks == 2
\* the width of the edge that fills no block, when there is one
EdgeRems == {0, 5}
FrameSizes == {(CharSize * k) + r : k \in 0..MaxBlocks, r \in EdgeRems}
LumaSamples == {0, 127, 128}
Patterns == {"flat", "checker", "ramp", "dither"}

pattern_pixel(pat, a, px, py) ==
    CASE pat = "flat"    -> a
      [] pat = "checker" -> IF ((px \div CharSize) + (py \div CharSize)) % 2 = 0
                            THEN a ELSE U8Max - a
      [] pat = "ramp"    -> (a + (3 * px) + (5 * py)) % (U8Max + 1)
      \* blocks of odd column alternate a and a + 1, the others are flat a
      [] pat = "dither"  -> IF (px \div CharSize) % 2 = 1 THEN a + ((px + py) % 2) ELSE a

SourceImage(w, h, pat, a) ==
    [width |-> w, height |-> h, px |-> [p \in Coords(w, h) |-> pattern_pixel(pat, a, p[1], p[2])]]

\* charset strings: "@ ", U+00E9 (which has no BASIC_FONTS entry) then '#', and
\* the empty string
CharsetInputs == {<<ChAt, ChSpace>>, <<233, ChHash>>, <<>>}
ShadeInputs == {1, 2, 3, MaxShades}

NoImage == [width |-> 0, height |-> 0, px |-> <<>>]

\* A transparent-mode call checks images whose pixels run through consecutive
\* values from a base, up to MaxImageSide pixels each way.
MaxImageSide == 2
ByteSamples == {0, 1, 20, 127, 128, 240, 254, U8Max}

\* Charsets of up to MaxCharsetLen characters are cut from the CLI's default.
MaxCharsetLen == 10
\* "@%#*+=-:. "
CliDefaultCharset ==
    <<ChAt, ChPercent, ChHash, ChStar, ChPlus, ChEquals, ChMinus, ChColon, ChDot, ChSpace>>

\* the first n characters of it, followed by U+00EA, U+00EB, ... beyond its end
CharsetOfLen(n) ==
    [i \in 1..n |-> IF i <= Len(CliDefaultCharset) THEN CliDefaultCharset[i] ELSE 233 + i - Len(CliDefaultCharset)]

\* Histogram inputs: images of up to MaxHistPixels pixels in a row.
MaxHistPixels == 4
HistValues == {0, 1, 128, U8Max}

\* Strings given to AsciiOptions::new have up to MaxStrLen characters.
MaxStrLen == 2
StrChars == {ChAt, ChSpace, 233}
\* u32 values given as columns and shades; 2147483647 stands for the large ones
U32Samples == {0, 1, 2, 120, U8Max, MaxShades, MaxShades + 1, 2147483647}

VARIABLES
    pc,        \* where the modelled function is
    source,    \* convert_frame_to_ascii: its source image
    options,   \* the AsciiOptions
    output,    \* the output image under construction
    row, col,  \* the block the loops are at
    cells,     \* per block drawn so far: its luma, enhanced brightness and character
    writes,    \* how many times put_pixel was called on each coordinate of the output
    reads,     \* the coordinates of the source get_pixel was called on
    args,      \* a single call of a function: its arguments
    ret,       \* and what it returned
    config,    \* pipeline::run: its PipelineConfig
    fps,       \* config.fps.unwrap_or(metadata.fps)
    frames,    \* the extracted frame files, sorted
    bg_color,  \* the background color of the run
    index,     \* the frame the loop is at
    saved,     \* the frames written to the ascii directory
    trace,     \* the calls made so far, in order, each with its error if it failed
    result     \* what run returned

frameVars == <<source, output, row, col, cells, writes, reads>>
callVars == <<args, ret>>
runVars == <<config, fps, frames, bg_color, index, saved, trace, result>>
vars == <<pc, source, options, output, row, col, cells, writes, reads, args, ret,
          config, fps, frames, bg_color, index, saved, trace, result>>

NoOptions == [columns |-> 1, charset |-> DefaultCharset, shades |-> 1]
NoValue == "none"

FrameIdle ==
    /\ source = NoImage /\ output = NoImage
    /\ row = 0 /\ col = 0 /\ cells = <<>>
    /\ writes = <<>> /\ reads = {}

Running == [kind |-> "running", err |-> "", frames_processed |-> 0, output_fps |-> 0]

RunIdle ==
    /\ config = NoValue /\ fps = 0 /\ frames = <<>> /\ bg_color = U8Max
    /\ index = 0 /\ saved = <<>> /\ trace = <<>> /\ result = Running

CallIdle == args = NoValue /\ ret = NoValue

(***************************************************************************)
(* convert_frame_to_ascii, one block per step                              *)
(***************************************************************************)
FrameInit ==
    /\ pc = "convert"
    /\ \E w \in FrameSizes, h \in FrameSizes, pat \in Patterns, a \in LumaSamples :
          source = SourceImage(w, h, pat, a)
    /\ \E cs \in CharsetInputs, s \in ShadeInputs :
          options = AsciiOptions_new(120, Utf8Encode(cs), s)
    /\ output = NoImage
    /\ row = 0 /\ col = 0
    /\ cells = <<>>
    /\ writes = <<>> /\ reads = {}
    /\ CallIdle /\ RunIdle

ConvertBegin ==
    /\ pc = "convert"
    /\ output' = blank_output(source)
    /\ pc' = IF grid_rows(source) > 0 /\ grid_columns(source) > 0 THEN "block" ELSE "converted"
    /\ UNCHANGED <<source, options, row, col, cells, writes, reads>>
    /\ UNCHANGED <<callVars, runVars>>

\* one more put_pixel call on each coordinate of W
add_writes(w, W) ==
    [p \in (DOMAIN w) \cup W |->
        (IF p \in DOMAIN w THEN w[p] ELSE 0) + (IF p \in W THEN 1 ELSE 0)]

ConvertBlock ==
    /\ pc = "block"
    /\ \E r \in {loop_body(source, options, output, row, col)} :
       IF ~r.ok
       THEN /\ pc' = "panic"
            /\ reads' = reads \cup r.reads
            /\ writes' = add_writes(writes, r.writes \cap DOMAIN output.px)
            /\ UNCHANGED <<output, row, col, cells>>
       ELSE /\ output' = r.output
            /\ reads' = reads \cup r.reads
            /\ writes' = add_writes(writes, r.writes)
            /\ cells' = Append(cells, [row |-> row, col |-> col, luma |-> r.luma,
                                       enhanced |-> r.enhanced, ch |-> r.ch])
            /\ IF col + 1 < grid_columns(source)
               THEN col' = col + 1 /\ row' = row /\ pc' = "block"
               ELSE IF row + 1 < grid_rows(source)
               THEN col' = 0 /\ row' = row + 1 /\ pc' = "block"
               ELSE col' = col /\ row' = row /\ pc' = "converted"
    /\ UNCHANGED <<source, options>>
    /\ UNCHANGED <<callVars, runVars>>

FrameNext == ConvertBegin \/ ConvertBlock

FrameSpec == FrameInit /\ [][FrameNext]_vars

(***************************************************************************)
(* Single calls of the pure functions                                      *)
(***************************************************************************)
\* convert_to_transparent(source, bg_color, threshold)
RampImage(w, h, base) ==
    [width |-> w, height |-> h,
     px |-> [p \in Coords(w, h) |-> (base + p[1] + (w * p[2])) % (U8Max + 1)]]

TransparentInit ==
    /\ pc = "call"
    /\ \E w \in 0..MaxImageSide, h \in 0..MaxImageSide, base \in Byte,
          bg \in ByteSamples, t \in ByteSamples :
          args = [source |-> RampImage(w, h, base), bg_color |-> bg, threshold |-> t]
    /\ ret = NoValue
    /\ options = NoOptions
    /\ FrameIdle /\ RunIdle

CallTransparent ==
    /\ pc = "call"
    /\ ret' = convert_to_transparent(args.source, args.bg_color, args.threshold)
    /\ pc' = "returned"
    /\ UNCHANGED <<args, options, frameVars, runVars>>

TransparentSpec == TransparentInit /\ [][CallTransparent]_vars

\* map_luma_to_char(luma, charset)
MapInit ==
    /\ pc = "call"
    /\ \E b \in Byte, n \in 1..MaxCharsetLen :
          args = [luma |-> b, charset |-> CharsetOfLen(n)]
    /\ ret = NoValue
    /\ options = NoOptions
    /\ FrameIdle /\ RunIdle

CallMap ==
    /\ pc = "call"
    /\ ret' = map_luma_to_char(args.luma, args.charset)
    /\ pc' = "returned"
    /\ UNCHANGED <<args, options, frameVars, runVars>>

MapSpec == MapInit /\ [][CallMap]_vars

\* detect_background_color(image)
RECURSIVE SeqsUpTo(_, _)
SeqsUpTo(S, n) ==
    IF n = 0 THEN {<<>>}
    ELSE SeqsUpTo(S, n - 1) \cup {Append(q, v) : q \in {t \in SeqsUpTo(S, n - 1) : Len(t) = n - 1}, v \in S}

RowImage(vals) ==
    [width |-> Len(vals), height |-> IF vals = <<>> THEN 0 ELSE 1,
     px |-> [p \in Coords(Len(vals), 1) |-> vals[p[1] + 1]]]

DetectInit ==
    /\ pc = "call"
    /\ \E vals \in SeqsUpTo(HistValues, MaxHistPixels) : args = [image |-> RowImage(vals)]
    /\ ret = NoValue
    /\ options = NoOptions
    /\ FrameIdle /\ RunIdle

CallDetect ==
    /\ pc = "call"
    /\ ret' = detect_background_color(args.image)
    /\ pc' = "returned"
    /\ UNCHANGED <<args, options, frameVars, runVars>>

DetectSpec == DetectInit /\ [][CallDetect]_vars

\* AsciiOptions::new(columns, charset, shades)
NewInit ==
    /\ pc = "call"
    /\ \E c \in U32Samples, cs \in SeqsUpTo(StrChars, MaxStrLen), s \in U32Samples :
          args = [columns |-> c, chars |-> cs, charset |-> Utf8Encode(cs), shades |-> s]
    /\ ret = NoValue
    /\ options = NoOptions
    /\ FrameIdle /\ RunIdle

CallNew ==
    /\ pc = "call"
    /\ ret' = AsciiOptions_new(args.columns, args.charset, args.shades)
    /\ pc' = "returned"
    /\ UNCHANGED <<args, options, frameVars, runVars>>

NewSpec == NewInit /\ [][CallNew]_vars

\* draw_glyph_gray(canvas, 0, 0, ch, brightness, num_shades) on a blank 8x8 canvas
GrayInit ==
    /\ pc = "call"
    /\ \E b \in Byte, s \in 2..MaxShades, ch \in {ChAt} :
          args = [ch |-> ch, brightness |-> b, num_shades |-> s]
    /\ ret = NoValue
    /\ options = NoOptions
    /\ FrameIdle /\ RunIdle

CallGray ==
    /\ pc = "call"
    /\ ret' = draw_glyph_gray(from_pixel(CharSize, CharSize, U8Max), 0, 0, args.ch, args.brightness, args.num_shades)
    /\ pc' = "returned"
    /\ UNCHANGED <<args, options, frameVars, runVars>>

GraySpec == GrayInit /\ [][CallGray]_vars

\* enhance_contrast(luma)
EnhanceInit ==
    /\ pc = "call"
    /\ \E b \in Byte : args = [luma |-> b]
    /\ ret = NoValue
    /\ options = NoOptions
    /\ FrameIdle /\ RunIdle

CallEnhance ==
    /\ pc = "call"
    /\ ret' = enhance_contrast(args.luma)
    /\ pc' = "returned"
    /\ UNCHANGED <<args, options, frameVars, runVars>>

EnhanceSpec == EnhanceInit /\ [][CallEnhance]_vars

\* convert_frame_to_ascii(source, a) and convert_frame_to_ascii(source, b) for
\* two AsciiOptions a and b that differ in columns only
ColumnSamples == {0, 1, 2, 120}

ColumnsInit ==
    /\ pc = "call"
    /\ \E w \in FrameSizes, h \in FrameSizes, cs \in CharsetInputs, s \in {1, 3},
          ca \in ColumnSamples, cb \in ColumnSamples :
          /\ ca < cb
          /\ args = [source |-> SourceImage(w, h, "ramp", 0),
                     a |-> [AsciiOptions_new(1, Utf8Encode(cs), s) EXCEPT !.columns = ca],
                     b |-> [AsciiOptions_new(1, Utf8Encode(cs), s) EXCEPT !.columns = cb]]
    /\ ret = NoValue
    /\ options = NoOptions
    /\ FrameIdle /\ RunIdle

CallConvertBoth ==
    /\ pc = "call"
    /\ ret' = [a |-> convert_frame_to_ascii(args.source, args.a),
               b |-> convert_frame_to_ascii(args.source, args.b)]
    /\ pc' = "returned"
    /\ UNCHANGED <<args, options, frameVars, runVars>>

ColumnsSpec == ColumnsInit /\ [][CallConvertBoth]_vars

(***************************************************************************)
(* pipeline::run                                                           *)
(***************************************************************************)
\* A video has up to MaxFrames frames, each an 8x8 frame of one brightness.
MaxFrames == 2
FrameLumas == {0, 200}
ProbedFps == {30}

Configs ==
    [input       : {"input.mp4"},
     columns     : {120},
     fps         : {None, Some(12)},
     charset     : {Utf8Encode(<<ChAt, ChSpace>>)},
     shades      : {1},
     transparent : BOOLEAN,
     bg_color    : {None, Some(0), Some(200)},
     threshold   : {0, 10},
     compare     : BOOLEAN]

\* One entry of the trace: the call, the frame index and background value it
\* is about (-1 when it has none), and the error it failed with ("" for none).
Ev(step, idx, bg, err) == [step |-> step, index |-> idx, bg |-> bg, err |-> err]

Ok(n, f) == [kind |-> "Ok", err |-> "", frames_processed |-> n, output_fps |-> f]
Err(e) == [kind |-> "Err", err |-> e, frames_processed |-> 0, output_fps |-> 0]

\* The `?` after a call: on an error run returns it, otherwise it goes on.
Fail(step, idx, e) ==
    /\ trace' = Append(trace, Ev(step, idx, -1, e))
    /\ result' = Err(e)
    /\ pc' = "done"

RECURSIVE Insert(_, _)
Insert(f, sorted) ==
    IF sorted = <<>> THEN <<f>>
    ELSE IF f.name <= Head(sorted).name THEN <<f>> \o sorted
    ELSE <<Head(sorted)>> \o Insert(f, Tail(sorted))

RECURSIVE files_sort(_)
\* files.sort(): frame_%08d.png names compare as their numbers do
files_sort(files) ==
    IF files = <<>> THEN <<>> ELSE Insert(Head(files), files_sort(Tail(files)))

\* The orders read_dir may list the files 1..n in.
Listings(n) == {q \in [1..n -> 1..n] : \A a, b \in 1..n : a # b => q[a] # q[b]}

extract_accepts_empty(files) == ""

\* if files.is_empty() { return Err(AppError::NoFramesExtracted) }
extract_result(files) == IF files = <<>> THEN "NoFramesExtracted" ELSE ""

detect_whenever_unset(cfg) == ~cfg.bg_color.some

\* if config.transparent { match config.bg_color { None => detect ... } }
needs_detection(cfg) == cfg.transparent /\ ~cfg.bg_color.some

RunInit ==
    /\ pc = "input_exists"
    /\ config \in Configs
    /\ fps = 0 /\ frames = <<>> /\ bg_color = U8Max /\ index = 0
    /\ saved = <<>> /\ trace = <<>> /\ result = Running
    /\ options = NoOptions
    /\ FrameIdle /\ CallIdle

\* if !config.input.exists() { return Err(InputNotFound) }
InputExists ==
    /\ pc = "input_exists"
    /\ \E exists \in BOOLEAN :
          IF exists
          THEN /\ trace' = Append(trace, Ev("input_exists", -1, -1, ""))
               /\ pc' = "tools_available"
               /\ UNCHANGED result
          ELSE Fail("input_exists", -1, "InputNotFound")
    /\ UNCHANGED <<config, fps, frames, bg_color, index, saved, options, frameVars, callVars>>

\* if !video::tools_available() { return Err(MissingFfmpeg) }
ToolsAvailable ==
    /\ pc = "tools_available"
    /\ \E ok \in BOOLEAN :
          IF ok
          THEN /\ trace' = Append(trace, Ev("tools_available", -1, -1, ""))
               /\ pc' = "probe_video"
               /\ UNCHANGED result
          ELSE Fail("tools_available", -1, "MissingFfmpeg")
    /\ UNCHANGED <<config, fps, frames, bg_color, index, saved, options, frameVars, callVars>>

\* let metadata = video::probe_video(&config.input)?; let fps = ...
ProbeVideo ==
    /\ pc = "probe_video"
    /\ \E e \in {"", "CommandSpawn", "CommandFailed", "ProbeParse"}, probed \in ProbedFps :
          IF e = ""
          THEN /\ trace' = Append(trace, Ev("probe_video", -1, -1, ""))
               /\ fps' = unwrap_or(config.fps, probed)
               /\ pc' = "tempdir"
               /\ UNCHANGED result
          ELSE Fail("probe_video", -1, e) /\ UNCHANGED fps
    /\ UNCHANGED <<config, frames, bg_color, index, saved, options, frameVars, callVars>>

\* let temp_dir = TempDir::new()?
TempDirNew ==
    /\ pc = "tempdir"
    /\ \E e \in {"", "Io"} :
          IF e = ""
          THEN /\ trace' = Append(trace, Ev("tempdir", -1, -1, ""))
               /\ pc' = "extract_frames"
               /\ UNCHANGED result
          ELSE Fail("tempdir", -1, e)
    /\ UNCHANGED <<config, fps, frames, bg_color, index, saved, options, frameVars, callVars>>

\* let frames = video::extract_frames(&config.input, &extracted_dir)?
ExtractFrames ==
    /\ pc = "extract_frames"
    /\ \E e \in {"", "Io", "CommandSpawn", "CommandFailed"}, n \in 0..MaxFrames :
       \E lumas \in [1..n -> FrameLumas], order \in Listings(n) :
       \E files \in {files_sort([k \in 1..n |->
                        [name |-> order[k],
                         image |-> from_pixel(CharSize, CharSize, lumas[order[k]])]])} :
          IF e # "" THEN Fail("extract_frames", -1, e) /\ UNCHANGED frames
          ELSE IF extract_result(files) # ""
          THEN Fail("extract_frames", Len(files), extract_result(files)) /\ UNCHANGED frames
          ELSE /\ trace' = Append(trace, Ev("extract_frames", Len(files), -1, ""))
               /\ frames' = files
               /\ pc' = "create_ascii_dir"
               /\ UNCHANGED result
    /\ UNCHANGED <<config, fps, bg_color, index, saved, options, frameVars, callVars>>

\* std::fs::create_dir_all(&ascii_dir)?; let options = AsciiOptions::new(...)
CreateAsciiDir ==
    /\ pc = "create_ascii_dir"
    /\ \E e \in {"", "Io"} :
          IF e = ""
          THEN /\ trace' = Append(trace, Ev("create_ascii_dir", -1, -1, ""))
               /\ options' = AsciiOptions_new(config.columns, config.charset, config.shades)
               /\ pc' = "select_background"
               /\ UNCHANGED result
          ELSE Fail("create_ascii_dir", -1, e) /\ UNCHANGED options
    /\ UNCHANGED <<config, fps, frames, bg_color, index, saved, frameVars, callVars>>

\* let bg_color = if config.transparent { ... } else { 255 }
SelectBackground ==
    /\ pc = "select_background"
    /\ IF needs_detection(config)
       THEN IF frames = <<>>
            THEN pc' = "panic" /\ UNCHANGED <<trace, result, bg_color>>
            ELSE \E e \in {"", "Image"} :
                 IF e = ""
                 THEN \E detected \in {detect_background_color(frames[1].image)} :
                      /\ trace' = trace \o <<Ev("open_first_frame", 0, -1, ""),
                                             Ev("detect_background_color", 0, detected, "")>>
                      /\ bg_color' = detected
                      /\ pc' = IF frames # <<>> THEN "transform_frame" ELSE "encode_video"
                      /\ UNCHANGED result
                 ELSE Fail("open_first_frame", 0, e) /\ UNCHANGED bg_color
       ELSE /\ bg_color' = IF config.transparent THEN config.bg_color.val ELSE U8Max
            /\ pc' = IF frames # <<>> THEN "transform_frame" ELSE "encode_video"
            /\ UNCHANGED <<trace, result>>
    /\ UNCHANGED <<config, fps, frames, index, saved, options, frameVars, callVars>>

\* One iteration of `for (index, frame_path) in frames.iter().enumerate()`.
TransformFrame ==
    /\ pc = "transform_frame"
    /\ \E open_err \in {"", "Image"}, save_err \in {"", "Image"} :
          IF open_err # ""
          THEN Fail("image_open", index, open_err) /\ UNCHANGED <<index, saved>>
          ELSE \E ascii \in {convert_frame_to_ascii(frames[index + 1].image, options)} :
               \E out \in {IF config.transparent
                           THEN convert_to_transparent(ascii, bg_color, config.threshold)
                           ELSE ascii} :
               \E calls \in {<<Ev("image_open", index, -1, ""),
                               Ev("convert_frame_to_ascii", index, -1, "")>>
                             \o (IF config.transparent
                                 THEN <<Ev("convert_to_transparent", index, bg_color, "")>>
                                 ELSE <<>>)} :
                  IF save_err # ""
                  THEN /\ trace' = trace \o calls \o <<Ev("save", index, -1, save_err)>>
                       /\ result' = Err(save_err)
                       /\ pc' = "done"
                       /\ UNCHANGED <<index, saved>>
                  ELSE /\ trace' = trace \o calls \o <<Ev("save", index, -1, "")>>
                       /\ saved' = Append(saved, [name |-> index, image |-> out])
                       /\ index' = index + 1
                       /\ pc' = IF index + 1 < Len(frames) THEN "transform_frame"
                                ELSE "encode_video"
                       /\ UNCHANGED result
    /\ UNCHANGED <<config, fps, frames, bg_color, options, frameVars, callVars>>

\* video::encode_video(...)?; without compare: Ok(PipelineStats { ... })
EncodeVideo ==
    /\ pc = "encode_video"
    /\ \E e \in {"", "Io", "CommandSpawn", "CommandFailed"} :
          IF e # "" THEN Fail("encode_video", -1, e)
          ELSE /\ trace' = Append(trace, Ev("encode_video", -1, -1, ""))
               /\ IF config.compare
                  THEN pc' = "create_comparison_video" /\ UNCHANGED result
                  ELSE pc' = "done" /\ result' = Ok(Len(frames), fps)
    /\ UNCHANGED <<config, fps, frames, bg_color, index, saved, options, frameVars, callVars>>

\* if config.compare { video::create_comparison_video(...)? }; Ok(PipelineStats { ... })
CreateComparisonVideo ==
    /\ pc = "create_comparison_video"
    /\ \E e \in {"", "Io", "CommandSpawn", "CommandFailed"} :
          IF e # "" THEN Fail("create_comparison_video", -1, e)
          ELSE /\ trace' = Append(trace, Ev("create_comparison_video", -1, -1, ""))
               /\ pc' = "done"
               /\ result' = Ok(Len(frames), fps)
    /\ UNCHANGED <<config, fps, frames, bg_color, index, saved, options, frameVars, callVars>>

RunNext ==
    \/ InputExists \/ ToolsAvailable \/ ProbeVideo \/ TempDirNew \/ ExtractFrames
    \/ CreateAsciiDir \/ SelectBackground \/ TransformFrame \/ EncodeVideo
    \/ CreateComparisonVideo

RunSpec == RunInit /\ [][RunNext]_vars

(***************************************************************************)
(* main, Cli::output_path and the files of the encode and comparison steps *)
(***************************************************************************)
\* A path is its directory components and its file name, a sequence of
\* characters; two paths name the same file when they are equal.
Path(dir, name) == [dir |-> dir, name |-> name]

\* the position of the last '.' of a file name, 0 when it has none
LastDot(name) ==
    IF \E i \in DOMAIN name : name[i] = "."
    THEN CHOOSE i \in DOMAIN name : name[i] = "." /\ \A j \in DOMAIN name : name[j] = "." => j <= i
    ELSE 0

\* Path::file_stem: the name up to its last '.', the whole name when it has
\* no '.' or only a leading one
file_stem(path) ==
    IF path.name = <<>> THEN None
    ELSE IF LastDot(path.name) <= 1 THEN Some(path.name)
    ELSE Some(SubSeq(path.name, 1, LastDot(path.name) - 1))

\* Path::extension: what follows the last '.', None when the name has no '.'
\* or only a leading one
extension(path) ==
    IF path.name = <<>> \/ LastDot(path.name) <= 1 THEN None
    ELSE Some(SubSeq(path.name, LastDot(path.name) + 1, Len(path.name)))

with_file_name(path, name) == [path EXCEPT !.name = name]

ExtMp4 == <<"m", "p", "4">>
ExtWebp == <<"w", "e", "b", "p">>
SuffixCompare == <<"_", "c", "o", "m", "p", "a", "r", "e", ".">>
SuffixAscii == <<"_", "a", "s", "c", "i", "i", ".">>
StemOutput == <<"o", "u", "t", "p", "u", "t">>

\* cli.rs: default_output_path(input, transparent, compare)
default_output_path(input, transparent, compare) ==
    LET stem == unwrap_or(file_stem(input), StemOutput)
        ext  == IF transparent THEN ExtWebp ELSE ExtMp4
    IN IF compare
       THEN Path(input.dir, stem \o SuffixCompare \o ext)
       ELSE Path(input.dir, stem \o SuffixAscii \o ext)

\* Cli::output_path
output_path(cli) ==
    IF cli.output.some THEN cli.output.val
    ELSE default_output_path(cli.input, cli.transparent, cli.compare)

\* video.rs 179-185: the path create_comparison_video has the encoder write
comparison_output(original, ascii_video) ==
    with_file_name(original,
                   file_stem(original).val \o SuffixCompare \o extension(ascii_video).val)

\* the two unwrap() calls of that expression
comparison_output_panics(original, ascii_video) ==
    ~file_stem(original).some \/ ~extension(ascii_video).some

\* Command lines
InputPaths ==
    {Path(d, n) : d \in {<<>>, <<"videos">>},
                  n \in {<<"i", "n", ".", "m", "p", "4">>,
                         <<"i", "n">>,
                         <<"a", ".", "b", ".", "m", "o", "v">>}}

OutputArgs(input) ==
    {None,
     Some(Path(<<>>, <<"o", "u", "t", ".", "m", "p", "4">>)),
     Some(Path(<<"videos">>, <<"o", "u", "t", ".", "w", "e", "b", "p">>)),
     Some(Path(<<>>, <<"o", "u", "t">>)),
     Some(Path(input.dir, <<"i", "n", "_", "c", "o", "m", "p", "a", "r", "e", ".", "m", "p", "4">>))}

\* an invocation of ffmpeg, or the rename: the files read, the file written
FileOp(step, rd, wr, err) == [step |-> step, reads |-> rd, writes |-> wr, err |-> err]

CompareInit ==
    /\ pc = "main"
    /\ \E input \in InputPaths, t \in BOOLEAN, c \in BOOLEAN :
          \E out \in OutputArgs(input) :
             args = [input |-> input, output |-> out, transparent |-> t, compare |-> c]
    /\ ret = NoValue
    /\ config = NoValue /\ fps = 0 /\ frames = <<>> /\ bg_color = U8Max
    /\ index = 0 /\ saved = <<>> /\ trace = <<>> /\ result = Running
    /\ options = NoOptions
    /\ FrameIdle

\* main.rs 6-18
BuildConfig ==
    /\ pc = "main"
    /\ config' = [input |-> args.input, output |-> output_path(args),
                  transparent |-> args.transparent, compare |-> args.compare]
    /\ pc' = "encode_video"
    /\ UNCHANGED <<options, frameVars, callVars, fps, frames, bg_color, index, saved, trace, result>>

\* pipeline.rs 81: video::encode_video(ascii_dir, input, fps, output, transparent)
EncodeAsciiVideo ==
    /\ pc = "encode_video"
    /\ \E e \in {"", "CommandFailed"} :
          /\ trace' = Append(trace, FileOp("encode_video",
                                           IF config.transparent THEN {} ELSE {config.input},
                                           config.output, e))
          /\ IF e # "" THEN pc' = "done" /\ result' = Err(e)
             ELSE IF config.compare THEN pc' = "create_comparison_video" /\ UNCHANGED result
             ELSE pc' = "done" /\ result' = Ok(0, 0)
    /\ UNCHANGED <<options, frameVars, callVars, config, fps, frames, bg_color, index, saved>>

\* video.rs 179-219: the encoder stacks original and ascii_video into output
StackComparison ==
    /\ pc = "create_comparison_video"
    /\ IF comparison_output_panics(config.input, config.output)
       THEN pc' = "panic" /\ UNCHANGED <<trace, result>>
       ELSE \E e \in {"", "CommandFailed"} :
               /\ trace' = Append(trace, FileOp("vstack", {config.input, config.output},
                                                comparison_output(config.input, config.output), e))
               /\ IF e # "" THEN pc' = "done" /\ result' = Err(e)
                  ELSE pc' = "rename" /\ UNCHANGED result
    /\ UNCHANGED <<options, frameVars, callVars, config, fps, frames, bg_color, index, saved>>

\* video.rs 222-224: fs::rename(&output, ascii_video)
RenameComparison ==
    /\ pc = "rename"
    /\ \E e \in {"", "Io"} :
          /\ trace' = Append(trace, FileOp("rename",
                                           {comparison_output(config.input, config.output)},
                                           config.output, e))
          /\ result' = IF e # "" THEN Err(e) ELSE Ok(0, 0)
    /\ pc' = "done"
    /\ UNCHANGED <<options, frameVars, callVars, config, fps, frames, bg_color, index, saved>>

CompareNext == BuildConfig \/ EncodeAsciiVideo \/ StackComparison \/ RenameComparison

CompareSpec == CompareInit /\ [][CompareNext]_vars

(***************************************************************************)
(* Properties                                                              *)
(***************************************************************************)
CellPixel(c, gx, gy) == output.px[<<(c.col * CharSize) + gx, (c.row * CharSize) + gy>>]
GlyphSide == 0..(CharSize - 1)

C2_ShadesOneBlackWhite ==
    options.shades = 1 /\ pc # "panic" =>
        \A p \in DOMAIN output.px : output.px[p] \in {0, 255}

C2_Witness ==
    /\ pc = "converted" /\ options.shades = 1
    /\ \E i \in DOMAIN cells : cells[i].ch >= BasicFontEnd
    /\ \E p \in DOMAIN output.px : output.px[p] = 0
    /\ \E p \in DOMAIN output.px : output.px[p] = 255

\* C9: with shades = 2 a foreground pixel (glyph bit 1) of a block is 0 when the
\* block's enhanced brightness is below 128 and 255 from 128 on, a background
\* pixel (bit 0) is 255; so every output pixel is 0 or 255.
C9_TwoShadesThreshold ==
    options.shades = 2 /\ pc # "panic" =>
        /\ \A i \in DOMAIN cells : \A gx \in GlyphSide, gy \in GlyphSide :
              CellPixel(cells[i], gx, gy) =
                 IF bit_on(glyph_for(cells[i].ch), gx, gy)
                 THEN (IF cells[i].enhanced < 128 THEN 0 ELSE 255)
                 ELSE 255
        /\ \A p \in DOMAIN output.px : output.px[p] \in {0, 255}

C9_Witness ==
    /\ pc = "converted" /\ options.shades = 2
    /\ \E i \in DOMAIN cells : \E gx \in GlyphSide, gy \in GlyphSide :
          /\ cells[i].enhanced = 128
          /\ bit_on(glyph_for(cells[i].ch), gx, gy)
          /\ CellPixel(cells[i], gx, gy) = 255
    /\ \E i \in DOMAIN cells : \E gx \in GlyphSide, gy \in GlyphSide :
          /\ cells[i].enhanced < 128
          /\ bit_on(glyph_for(cells[i].ch), gx, gy)
          /\ CellPixel(cells[i], gx, gy) = 0

\* n/d rounded to the nearest integer, halves up (n >= 0, d > 0)
RoundHalfUp(n, d) == ((2 * n) + d) \div (2 * d)

\* C3: convert_to_transparent keeps the dimensions and yields (255,255,255,0)
\* for a pixel p iff |p - bg| <= t, and (p,p,p,255) otherwise; the difference
\* is the true one at the byte bounds (no wrap-around).
C3_TransparentIffWithinTolerance ==
    pc = "returned" =>
        /\ ret.width = args.source.width /\ ret.height = args.source.height
        /\ DOMAIN ret.px = DOMAIN args.source.px
        /\ \A p \in DOMAIN args.source.px :
              LET v == args.source.px[p]
                  d == IF v >= args.bg_color THEN v - args.bg_color ELSE args.bg_color - v
              IN ret.px[p] = IF d <= args.threshold THEN <<255, 255, 255, 0>>
                             ELSE <<v, v, v, 255>>

C3_Witness ==
    /\ pc = "returned" /\ args.bg_color = 0 /\ args.threshold = 1
    /\ \E p \in DOMAIN ret.px : args.source.px[p] = 255 /\ ret.px[p] = <<255, 255, 255, 255>>
    /\ \E p \in DOMAIN ret.px : args.source.px[p] = 1 /\ ret.px[p] = <<255, 255, 255, 0>>

\* C4: map_luma_to_char returns the character at index floor(b*(len-1)/255) of
\* a non-empty charset: the index is in 0..len-1, b = 0 gives the first
\* character, b = 255 the last, a one-character charset its only character.
C4_MapIndexIsFloor ==
    pc = "returned" =>
        LET len == Len(args.charset)
            b   == args.luma
        IN /\ \E k \in 0..(len - 1) :
                 /\ k * 255 <= b * (len - 1)
                 /\ b * (len - 1) < (k + 1) * 255
                 /\ ret = args.charset[k + 1]
           /\ (b = 0 => ret = args.charset[1])
           /\ (b = 255 => ret = args.charset[len])
           /\ (len = 1 => ret = args.charset[1])

C4_Witness ==
    /\ pc = "returned" /\ Len(args.charset) = 10 /\ args.luma = 128
    /\ ret = args.charset[5]

PixelCount(image, c) == Cardinality({p \in DOMAIN image.px : image.px[p] = c})

\* C5: for a non-empty image detect_background_color returns a value whose
\* pixel count is maximal over the 256 values, the lowest of those with the
\* maximal count.
C5_LowestMode ==
    pc = "returned" /\ DOMAIN args.image.px # {} =>
        \A c \in Byte :
            /\ PixelCount(args.image, c) <= PixelCount(args.image, ret)
            /\ (PixelCount(args.image, c) = PixelCount(args.image, ret) => ret <= c)

C5_Witness ==
    /\ pc = "returned"
    /\ args.image.width = 4
    /\ args.image.px[<<0, 0>>] = 255
    /\ PixelCount(args.image, 255) = 2 /\ PixelCount(args.image, 1) = 2
    /\ ret = 1

\* C6: AsciiOptions::new gives charset length >= 1 (the default `@#*+=-:. ` for
\* an empty string, the string's characters in order otherwise), columns >= 1
\* (0 becomes 1) and 1 <= shades <= 256 (0 becomes 1, above 256 becomes 256),
\* other values unchanged.
C6_OptionsNormalized ==
    pc = "returned" =>
        /\ Len(ret.charset) >= 1
        /\ (args.chars = <<>> => ret.charset = <<64, 35, 42, 43, 61, 45, 58, 46, 32>>)
        /\ (args.chars # <<>> => ret.charset = args.chars)
        /\ ret.columns >= 1
        /\ ret.columns = (IF args.columns = 0 THEN 1 ELSE args.columns)
        /\ ret.shades >= 1 /\ ret.shades <= 256
        /\ ret.shades = (IF args.shades = 0 THEN 1
                         ELSE IF args.shades > 256 THEN 256 ELSE args.shades)

C6_Witness ==
    /\ pc = "returned"
    /\ args.chars = <<233, 64>> /\ Len(args.charset) = 3 /\ ret.charset = <<233, 64>>
    /\ args.columns = 0 /\ ret.columns = 1
    /\ args.shades = 257 /\ ret.shades = 256

\* C10: for s in 3..256 and b in 0..255 the foreground value draw_glyph_gray
\* paints is round(k*255/(s-1)), k = round(b*(s-1)/255) clamped to [0, s-1];
\* k and the value fit a byte, b = 0 gives 0, b = 255 gives 255, at most s
\* values occur (one per k), and s = 256 gives b.
C10_QuantizedShade ==
    pc = "returned" /\ args.num_shades >= 3 =>
        LET s == args.num_shades
            b == args.brightness
            k == Min(Max(RoundHalfUp(b * (s - 1), 255), 0), s - 1)
            v == RoundHalfUp(k * 255, s - 1)
        IN /\ k \in 0..(s - 1) /\ k <= 255
           /\ v \in 0..255
           /\ (b = 0 => v = 0)
           /\ (b = 255 => v = 255)
           /\ (s = 256 => v = b)
           /\ \A p \in DOMAIN ret.px :
                 ret.px[p] = IF bit_on(glyph_for(args.ch), p[1], p[2]) THEN v ELSE 255

C10_Witness ==
    /\ pc = "returned" /\ args.num_shades = 3 /\ args.brightness = 128
    /\ \E p \in DOMAIN ret.px : bit_on(glyph_for(args.ch), p[1], p[2]) /\ ret.px[p] = 128

Calls(step) == {i \in DOMAIN trace : trace[i].step = step}
Requested == config.transparent /\ ~config.bg_color.some

\* C7 as stated: in one execution of run, detect_background_color is invoked
\* exactly once if transparency is requested and no bg_color is configured and
\* never otherwise, on the first extracted frame before any frame is
\* transformed, and its value (or the configured bg_color) is the one passed to
\* convert_to_transparent for every frame.
C7_DetectsExactlyOnceIfRequested ==
    pc = "done" =>
        /\ Cardinality(Calls("detect_background_color")) = (IF Requested THEN 1 ELSE 0)
        /\ \A i \in Calls("detect_background_color") :
              /\ trace[i].index = 0
              /\ \A j \in Calls("convert_frame_to_ascii") : i < j
        /\ \A j \in Calls("convert_to_transparent") :
              trace[j].bg = IF config.bg_color.some THEN config.bg_color.val
                            ELSE detect_background_color(frames[1].image)

\* C7 (amended): detect_background_color is invoked at most once in an
\* execution of run, and only if transparency is requested and no bg_color is
\* configured; it is invoked in every such execution that gets as far as
\* opening its first frame (one that fails before never invokes it).  When
\* invoked it runs on the first extracted frame before any frame is
\* transformed, and its value (or the configured bg_color) is the one passed to
\* convert_to_transparent for every frame.
C7_DetectsOnceWhenReached ==
    pc # "panic" =>
        /\ Cardinality(Calls("detect_background_color")) <= 1
        /\ (Calls("detect_background_color") # {} => Requested)
        /\ (Requested /\ (\E i \in Calls("open_first_frame") : trace[i].err = "") =>
               Cardinality(Calls("detect_background_color")) = 1)
        /\ (Requested /\ (Calls("convert_frame_to_ascii") # {} \/ result.kind = "Ok") =>
               Cardinality(Calls("detect_background_color")) = 1)
        /\ \A i \in Calls("detect_background_color") :
              /\ trace[i].index = 0
              /\ trace[i].bg = detect_background_color(frames[1].image)
              /\ \A j \in Calls("convert_frame_to_ascii") : i < j
        /\ \A j \in Calls("convert_to_transparent") :
              /\ config.transparent
              /\ trace[j].bg = IF config.bg_color.some THEN config.bg_color.val
                               ELSE detect_background_color(frames[1].image)
        /\ (config.transparent =>
               \A j \in Calls("convert_frame_to_ascii") :
                  trace[j + 1].step = "convert_to_transparent"
                  /\ trace[j + 1].index = trace[j].index)

C7_Witness ==
    /\ pc = "done" /\ result.kind = "Ok" /\ Requested
    /\ Len(frames) = 2
    /\ frames[1].image.px[<<0, 0>>] = 200 /\ frames[2].image.px[<<0, 0>>] = 0
    /\ Cardinality(Calls("detect_background_color")) = 1
    /\ Cardinality(Calls("convert_to_transparent")) = 2
    /\ \A j \in Calls("convert_to_transparent") : trace[j].bg = 200

\* The place of a call in the order of run: the step, then the frame, then the
\* call within the frame's iteration.
StepRank(step) ==
    CASE step = "input_exists"            -> 1
      [] step = "tools_available"         -> 2
      [] step = "probe_video"             -> 3
      [] step = "tempdir"                 -> 4
      [] step = "extract_frames"          -> 5
      [] step = "create_ascii_dir"        -> 6
      [] step = "open_first_frame"        -> 7
      [] step = "detect_background_color" -> 8
      [] step \in {"image_open", "convert_frame_to_ascii",
                   "convert_to_transparent", "save"} -> 9
      [] step = "encode_video"            -> 10
      [] step = "create_comparison_video" -> 11

CallRank(step) ==
    CASE step = "image_open"             -> 1
      [] step = "convert_frame_to_ascii" -> 2
      [] step = "convert_to_transparent" -> 3
      [] step = "save"                   -> 4
      [] OTHER                           -> 0

Before(a, b) ==
    \/ StepRank(a.step) < StepRank(b.step)
    \/ /\ StepRank(a.step) = 9 /\ StepRank(b.step) = 9
       /\ \/ a.index < b.index
          \/ a.index = b.index /\ CallRank(a.step) < CallRank(b.step)

ErrorsOf(step) ==
    CASE step = "input_exists"            -> {"InputNotFound"}
      [] step = "tools_available"         -> {"MissingFfmpeg"}
      [] step = "probe_video"             -> {"CommandSpawn", "CommandFailed", "ProbeParse"}
      [] step = "tempdir"                 -> {"Io"}
      [] step = "extract_frames"          -> {"Io", "CommandSpawn", "CommandFailed",
                                              "NoFramesExtracted"}
      [] step = "create_ascii_dir"        -> {"Io"}
      [] step \in {"open_first_frame", "image_open", "save"} -> {"Image"}
      [] step \in {"encode_video", "create_comparison_video"}
                                          -> {"Io", "CommandSpawn", "CommandFailed"}
      [] OTHER                            -> {}

FrameCalls == Calls("open_first_frame") \cup Calls("image_open")
                 \cup Calls("convert_frame_to_ascii") \cup Calls("save")

\* C8: run executes input-exists check, tool check, probe, extraction, the
\* per-frame transform and save in ascending frame order, encode and the
\* optional comparison in this order and stops at the first step that fails,
\* returning that step's error; encode_video comes only after every frame was
\* transformed and saved, Ok only when every executed step succeeded, a
\* missing input gives InputNotFound before any external tool runs, no frames
\* gives NoFramesExtracted before a frame is accessed.
C8_FixedOrderStopAtFirstFailure ==
    pc # "panic" =>
        /\ \A i, j \in DOMAIN trace : i < j => Before(trace[i], trace[j])
        /\ \A i \in DOMAIN trace : i < Len(trace) => trace[i].err = ""
        /\ (result.kind = "Err" <=> (trace # <<>> /\ trace[Len(trace)].err # ""))
        /\ (result.kind = "Err" =>
               /\ result.err = trace[Len(trace)].err
               /\ result.err \in ErrorsOf(trace[Len(trace)].step))
        /\ (result.kind # "running" <=> pc = "done")
        /\ \A e \in Calls("encode_video") :
              /\ Len(saved) = Len(frames)
              /\ \A k \in 0..(Len(frames) - 1) :
                    /\ saved[k + 1].name = k
                    /\ \E c \in Calls("convert_frame_to_ascii") : c < e /\ trace[c].index = k
                    /\ \E c \in Calls("save") : c < e /\ trace[c].index = k /\ trace[c].err = ""
        /\ (result.kind = "Ok" =>
               /\ \A i \in DOMAIN trace : trace[i].err = ""
               /\ Calls("encode_video") # {}
               /\ (config.compare <=> Calls("create_comparison_video") # {})
               /\ result.frames_processed = Len(frames) /\ Len(frames) >= 1)
        /\ (result.err = "InputNotFound" =>
               trace = <<Ev("input_exists", -1, -1, "InputNotFound")>>)
        /\ \A i \in Calls("extract_frames") :
              trace[i].index = 0 => trace[i].err = "NoFramesExtracted"
        /\ (result.err = "NoFramesExtracted" =>
               FrameCalls = {} /\ frames = <<>> /\ trace[Len(trace)].step = "extract_frames")

C8_Witness ==
    /\ pc = "done" /\ result = Err("Image")
    /\ trace[Len(trace)] = Ev("save", 1, -1, "Image")
    /\ Len(saved) = 1 /\ Len(frames) = 2
    /\ Calls("encode_video") = {}

\* trunc(clamp(1.5*b - 63.75, 0, 255)) in integers: 1.5*b - 63.75 = (6*b - 255)/4
StretchTrunc(b) ==
    IF (6 * b) - 255 < 0 THEN 0 ELSE Min(((6 * b) - 255) \div 4, U8Max)

\* C11: for every brightness byte b, enhance_contrast(b) is
\* trunc(clamp(1.5*b - 63.75, 0, 255)); it is 0 for every b <= 42, 255 for
\* every b >= 213, lies in 0..255 and is non-decreasing in b.
C11_ContrastStretchTruncated ==
    pc = "returned" =>
        /\ ret = StretchTrunc(args.luma)
        /\ ret \in 0..U8Max
        /\ (args.luma <= 42 => ret = 0)
        /\ (args.luma >= 213 => ret = U8Max)
        /\ \A a \in Byte : a <= args.luma => enhance_contrast(a) <= ret

C11_Witness ==
    /\ pc = "returned"
    /\ args.luma = 43
    /\ ret = 0

RECURSIVE SumBlock(_, _, _, _)
\* the sum of the pixels number k, k + 1, ... 63 of the block of origin (bx, by)
SumBlock(image, bx, by, k) ==
    IF k = CharSize * CharSize THEN 0
    ELSE image.px[<<bx + (k % CharSize), by + (k \div CharSize)>>] + SumBlock(image, bx, by, k + 1)

\* the truncated integer mean of the 64 source pixels of the block (r, c)
BlockMean(r, c) == SumBlock(source, c * CharSize, r * CharSize, 0) \div (CharSize * CharSize)

\* the 8x8 output of a uniform 8x8 source of brightness m under the options
UniformBlock(m) ==
    convert_frame_to_ascii(from_pixel(CharSize, CharSize, m), options)

\* C12: the output block at (row, col) depends only on the truncated mean of
\* the 64 source pixels of the same block, the charset and the shade count:
\* it is the block a uniform source of that brightness gives, two blocks of
\* the same truncated mean carry identical 8x8 patterns, and a uniform source
\* gives the same pattern in every block.
C12_BlockDependsOnOwnMeanOnly ==
    pc = "converted" =>
        \A i \in DOMAIN cells :
           /\ \A m \in {BlockMean(cells[i].row, cells[i].col)} :
                 /\ cells[i].luma = m
                 /\ \A u \in {UniformBlock(m)} :
                       \A gx \in GlyphSide, gy \in GlyphSide :
                          CellPixel(cells[i], gx, gy) = u.px[<<gx, gy>>]
           /\ \A j \in DOMAIN cells :
                 cells[j].luma = cells[i].luma =>
                    \A gx \in GlyphSide, gy \in GlyphSide :
                       CellPixel(cells[i], gx, gy) = CellPixel(cells[j], gx, gy)

C12_Witness ==
    /\ pc = "converted"
    /\ Len(cells) = 4
    /\ options.shades = 2
    /\ source.px[<<8, 0>>] = 127 /\ source.px[<<9, 0>>] = 128 /\ source.px[<<0, 0>>] = 127
    /\ cells[1].luma = 127 /\ cells[2].luma = 127
    /\ \E gx \in GlyphSide, gy \in GlyphSide : CellPixel(cells[2], gx, gy) = 0

C14_AccessesInBoundsBlocksTile ==
    /\ pc # "panic"
    /\ (pc \in {"block", "converted"} =>
           /\ DOMAIN writes \subseteq Coords(output.width, output.height)
           /\ reads \subseteq Coords(source.width, source.height)
           /\ \A p \in DOMAIN writes : writes[p] = 1
           /\ Cardinality(DOMAIN writes) = Len(cells) * CharSize * CharSize)
    /\ (pc = "converted" => DOMAIN writes = Coords(output.width, output.height))

C14_Witness ==
    /\ pc = "converted"
    /\ source.width = 21 /\ source.height = 13
    /\ output.width = 16 /\ output.height = 8
    /\ Len(cells) = 2
    /\ \A p \in Coords(16, 8) : writes[p] = 1
    /\ reads = Coords(16, 8)

\* C15: when a comparison is requested, the file create_comparison_video has
\* the encoder write is never one of the two files the encoder reads (the
\* original input and the ASCII video written by encode_video), for every
\* output path, the CLI's default with compare set included; the ASCII video
\* is replaced by the comparison only by the rename that follows a successful
\* encode.
C15_ComparisonOutputIsNoInput ==
    \A i \in DOMAIN trace :
       /\ (trace[i].step = "vstack" =>
              /\ trace[i].reads = {config.input, config.output}
              /\ trace[i].writes \notin trace[i].reads)
       /\ (trace[i].step = "rename" =>
              /\ i > 1
              /\ trace[i - 1].step = "vstack" /\ trace[i - 1].err = ""
              /\ trace[i].reads = {trace[i - 1].writes}
              /\ trace[i].writes = config.output)

\* the run in which the encoder is told to overwrite the ASCII video it reads
C15_DefaultPathClash ==
    /\ pc = "rename"
    /\ ~args.output.some /\ args.compare
    /\ trace[Len(trace)].step = "vstack"
    /\ trace[Len(trace)].writes = config.output
====
